---- MODULE Spec2Model ----
(***************************************************************************)
(* MediCredit AI frontend: the router of App.tsx, the navigation Layout    *)
(* and the two tabbed pages PatientPortal and ProviderDashboard.           *)
(*                                                                         *)
(* A URL path is a sequence of one-character strings, so that startsWith   *)
(* and the router's pattern match are computed character by character.     *)
(***************************************************************************)
EXTENDS Naturals, Sequences, FiniteSets

VARIABLES
    pathname,       \* location.pathname
    element,        \* what <Routes> renders for the path
    activeTab,      \* per page: the useState value, or Unmounted
    rendered,       \* the child components rendered as <ActiveComponent />
    activeButtons,  \* labels of the tab buttons that carry the active styling
    isPatient,      \* Layout: Patient Portal link highlighted
    isProvider,     \* Layout: Provider Dashboard link highlighted
    clicked,        \* history: a tab was clicked since the page was mounted
    discarded       \* history: per page, the selection dropped at its last unmount

vars == <<pathname, element, activeTab, rendered, activeButtons,
          isPatient, isProvider, clicked, discarded>>

----------------------------------------------------------------------------
(* Bounds *)

\* longest tail appended to a path head
MaxTail == 2

----------------------------------------------------------------------------
(* Paths *)

PatientPath == <<"/", "p", "a", "t", "i", "e", "n", "t">>

ProviderPath == <<"/", "p", "r", "o", "v", "i", "d", "e", "r">>

PatientPathCapital == <<"/", "P", "a", "t", "i", "e", "n", "t">>

ProviderPathUpper == <<"/", "P", "R", "O", "V", "I", "D", "E", "R">>

RootPath == <<"/">>

TailChars == {"/", "x"}

Tails == UNION {[1..n -> TailChars] : n \in 0..MaxTail}

Heads == {<<>>, PatientPath, ProviderPath, PatientPathCapital, ProviderPathUpper}

\* the URL paths the browser can be at: every pathname starts with "/"
Paths == {p \in {h \o t : h \in Heads, t \in Tails} : Len(p) > 0 /\ p[1] = "/"}

UpperLetters == <<"A", "B", "C", "D", "E", "F", "G", "H", "I", "J", "K", "L", "M",
                  "N", "O", "P", "Q", "R", "S", "T", "U", "V", "W", "X", "Y", "Z">>

LowerLetters == <<"a", "b", "c", "d", "e", "f", "g", "h", "i", "j", "k", "l", "m",
                  "n", "o", "p", "q", "r", "s", "t", "u", "v", "w", "x", "y", "z">>

ToLowerChar(c) ==
    IF \E i \in 1..Len(UpperLetters) : UpperLetters[i] = c
    THEN LowerLetters[CHOOSE i \in 1..Len(UpperLetters) : UpperLetters[i] = c]
    ELSE c

ToLowerCase(s) == [i \in 1..Len(s) |-> ToLowerChar(s[i])]

\* String.prototype.startsWith: case-sensitive comparison from position 0
StartsWith(s, search) ==
    /\ Len(search) <= Len(s)
    /\ SubSeq(s, 1, Len(search)) = search

----------------------------------------------------------------------------
(* Router *)

Pages == {"PatientPortal", "ProviderDashboard"}

\* <Route path="/">: the pattern ^\/\/*$
MatchRoot(p) == Len(p) >= 1 /\ \A i \in 1..Len(p) : p[i] = "/"

\* variant: a plain prefix match, without the segment boundary
MatchSplatPrefix(p, base) == StartsWith(ToLowerCase(p), base)

\* <Route path="base/*">: the pattern ^base(?:\/(.+)|\/*)$, case-insensitive
MatchSplat(p, base) ==
    /\ StartsWith(ToLowerCase(p), base)
    /\ \/ Len(p) = Len(base)
       \/ p[Len(base) + 1] = "/"

\* the element <Routes> renders for a path; null when no route matches
Routes(p) ==
    IF MatchRoot(p) THEN "Navigate"
    ELSE IF MatchSplat(p, PatientPath) THEN "PatientPortal"
    ELSE IF MatchSplat(p, ProviderPath) THEN "ProviderDashboard"
    ELSE "null"

\* variant: the redirect points at the other section
NavigateTargetProvider == ProviderPath

\* <Navigate to="/patient" replace />
NavigateTarget == PatientPath

\* the two <Link to=...> of Layout
LinkTargets == {PatientPath, ProviderPath}

----------------------------------------------------------------------------
(* Pages *)

Unmounted == "unmounted"

PatientPortalTabs ==
    << [id |-> "estimate",   label |-> "Cost Estimator",  component |-> "CostEstimator"],
       [id |-> "bill",       label |-> "Bill Analysis",   component |-> "BillAnalysis"],
       [id |-> "assistance", label |-> "Find Assistance", component |-> "AssistanceFinder"],
       [id |-> "risk",       label |-> "Risk Dashboard",  component |-> "RiskDashboard"] >>

ProviderDashboardTabs ==
    << [id |-> "denial",    label |-> "Denial Risk Scorer",     component |-> "DenialRiskScorer"],
       [id |-> "qa",        label |-> "Claim QA",               component |-> "ClaimQA"],
       [id |-> "analytics", label |-> "Revenue Analytics",      component |-> "RevenueAnalytics"],
       [id |-> "coding",    label |-> "Coding Recommendations", component |-> "CodingRecommendations"] >>

tabs(page) == IF page = "PatientPortal" THEN PatientPortalTabs ELSE ProviderDashboardTabs

\* variant: PatientPortal starts on its second tab
InitialTabBill(page) == IF page = "PatientPortal" THEN "bill" ELSE "denial"

\* variant: ProviderDashboard starts on its second tab
InitialTabQa(page) == IF page = "PatientPortal" THEN "estimate" ELSE "qa"

\* useState('estimate') / useState('denial')
InitialTab(page) == IF page = "PatientPortal" THEN "estimate" ELSE "denial"

\* variant: the fallback of PatientPortal left in the copy that became ProviderDashboard
FallbackComponentCopied(page) == "CostEstimator"

\* the right-hand side of `|| ...` in ActiveComponent
FallbackComponent(page) ==
    IF page = "PatientPortal" THEN "CostEstimator" ELSE "DenialRiskScorer"

\* Array.prototype.find: index of the first tab whose id is the given one, 0 if none
Find(ts, id) ==
    IF \E i \in 1..Len(ts) : ts[i].id = id
    THEN CHOOSE i \in 1..Len(ts) :
            /\ ts[i].id = id
            /\ \A j \in 1..(i - 1) : ts[j].id # id
    ELSE 0

\* variant: the lookup is skipped and the fallback always rendered
ActiveComponentFallback(page, tab) == FallbackComponent(page)

\* tabs.find(t => t.id === activeTab)?.component || <fallback>
ActiveComponent(page, tab) ==
    LET i == Find(tabs(page), tab)
    IN  IF i # 0 THEN tabs(page)[i].component ELSE FallbackComponent(page)

\* variant: the className test compares the selection with the tab's label
ActiveButtonsByLabel(page, tab) ==
    {tabs(page)[i].label : i \in {j \in 1..Len(tabs(page)) : tabs(page)[j].label = tab}}

\* the buttons whose className takes the `activeTab === tab.id` branch
ActiveButtons(page, tab) ==
    {tabs(page)[i].label : i \in {j \in 1..Len(tabs(page)) : tabs(page)[j].id = tab}}

\* what the routed element puts on screen below the tab bar
RenderedChildren(el, at) ==
    IF el \in Pages THEN {ActiveComponent(el, at[el])} ELSE {}

RenderedButtons(el, at) ==
    IF el \in Pages THEN ActiveButtons(el, at[el]) ELSE {}

\* variant: the prefix test ignores case
LayoutIgnoreCase(p) ==
    [isPatient  |-> StartsWith(ToLowerCase(p), PatientPath),
     isProvider |-> StartsWith(ToLowerCase(p), ProviderPath)]

\* Layout: the two highlight flags for a path
Layout(p) ==
    [isPatient  |-> StartsWith(p, PatientPath),
     isProvider |-> StartsWith(p, ProviderPath)]

----------------------------------------------------------------------------
(* Operations *)

NoSelection == [pg \in Pages |-> Unmounted]

\* the application loaded at path p: every component is constructed anew
Load(p) ==
    LET el == Routes(p)
        at == [pg \in Pages |-> IF el = pg THEN InitialTab(pg) ELSE Unmounted]
    IN  /\ pathname' = p
        /\ element' = el
        /\ activeTab' = at
        /\ rendered' = RenderedChildren(el, at)
        /\ activeButtons' = RenderedButtons(el, at)
        /\ isPatient' = Layout(p).isPatient
        /\ isProvider' = Layout(p).isProvider
        /\ clicked' = FALSE
        /\ discarded' = NoSelection

Init ==
    \E p \in Paths :
        LET el == Routes(p)
            at == [pg \in Pages |-> IF el = pg THEN InitialTab(pg) ELSE Unmounted]
        IN  /\ pathname = p
            /\ element = el
            /\ activeTab = at
            /\ rendered = RenderedChildren(el, at)
            /\ activeButtons = RenderedButtons(el, at)
            /\ isPatient = Layout(p).isPatient
            /\ isProvider = Layout(p).isProvider
            /\ clicked = FALSE
            /\ discarded = NoSelection

\* variant: a page mounted again takes back the selection it had when unmounted
NavigateToKeep(p) ==
    LET el == Routes(p)
        at == [pg \in Pages |->
                 IF el = pg
                 THEN (IF element = pg THEN activeTab[pg]
                       ELSE IF discarded[pg] # Unmounted THEN discarded[pg]
                       ELSE InitialTab(pg))
                 ELSE Unmounted]
    IN  /\ pathname' = p
        /\ element' = el
        /\ activeTab' = at
        /\ rendered' = RenderedChildren(el, at)
        /\ activeButtons' = RenderedButtons(el, at)
        /\ isPatient' = Layout(p).isPatient
        /\ isProvider' = Layout(p).isProvider
        /\ clicked' = (IF el = element /\ el \in Pages THEN clicked ELSE FALSE)
        /\ discarded' = [pg \in Pages |->
                           IF element = pg /\ el # pg THEN activeTab[pg]
                           ELSE discarded[pg]]

\* client-side navigation: the location changes and the tree re-renders; a page
\* that stays routed keeps its state, any other page is unmounted or mounted
NavigateTo(p) ==
    LET el == Routes(p)
        at == [pg \in Pages |->
                 IF el = pg
                 THEN (IF element = pg THEN activeTab[pg] ELSE InitialTab(pg))
                 ELSE Unmounted]
    IN  /\ pathname' = p
        /\ element' = el
        /\ activeTab' = at
        /\ rendered' = RenderedChildren(el, at)
        /\ activeButtons' = RenderedButtons(el, at)
        /\ isPatient' = Layout(p).isPatient
        /\ isProvider' = Layout(p).isProvider
        /\ clicked' = (IF el = element /\ el \in Pages THEN clicked ELSE FALSE)
        /\ discarded' = [pg \in Pages |->
                           IF element = pg /\ el # pg THEN activeTab[pg]
                           ELSE discarded[pg]]

\* the user opens a URL (address bar, reload): a fresh document.  The effect of
\* a rendered <Navigate> runs right after the commit, before any other event.
Visit(p) ==
    /\ element # "Navigate"
    /\ Load(p)

\* the user clicks one of Layout's links
ClickLink(to) ==
    /\ element # "Navigate"
    /\ NavigateTo(to)

\* the effect of <Navigate to="/patient" replace />
Redirect ==
    /\ element = "Navigate"
    /\ NavigateTo(NavigateTarget)

\* variant: the handler stores the tab's label instead of its id
ClickTabLabel(page, i) ==
    /\ element = page
    /\ i \in 1..Len(tabs(page))
    /\ LET at == [activeTab EXCEPT ![page] = tabs(page)[i].label]
       IN  /\ activeTab' = at
           /\ rendered' = RenderedChildren(element, at)
           /\ activeButtons' = RenderedButtons(element, at)
    /\ clicked' = TRUE
    /\ UNCHANGED <<pathname, element, isPatient, isProvider, discarded>>

\* variant: the handler also navigates to the section's base path
ClickTabNavigates(page, i) ==
    /\ element = page
    /\ i \in 1..Len(tabs(page))
    /\ LET at == [activeTab EXCEPT ![page] = tabs(page)[i].id]
           to == IF page = "PatientPortal" THEN PatientPath ELSE ProviderPath
       IN  /\ activeTab' = at
           /\ rendered' = RenderedChildren(element, at)
           /\ activeButtons' = RenderedButtons(element, at)
           /\ pathname' = to
           /\ isPatient' = Layout(to).isPatient
           /\ isProvider' = Layout(to).isProvider
    /\ clicked' = TRUE
    /\ UNCHANGED <<element, discarded>>

\* onClick={() => setActiveTab(tab.id)} of the i-th button of a mounted page
ClickTab(page, i) ==
    /\ element = page
    /\ i \in 1..Len(tabs(page))
    /\ LET at == [activeTab EXCEPT ![page] = tabs(page)[i].id]
       IN  /\ activeTab' = at
           /\ rendered' = RenderedChildren(element, at)
           /\ activeButtons' = RenderedButtons(element, at)
    /\ clicked' = TRUE
    /\ UNCHANGED <<pathname, element, isPatient, isProvider, discarded>>

Next ==
    \/ \E p \in Paths : Visit(p)
    \/ \E to \in LinkTargets : ClickLink(to)
    \/ Redirect
    \/ \E page \in Pages : \E i \in 1..4 : ClickTab(page, i)

Spec == Init /\ [][Next]_vars

----------------------------------------------------------------------------
(* A page rendered with an arbitrary selection value.  Init draws the value *)
(* of activeTab from Identifiers and RenderPage applies the page's render.  *)

Identifiers ==
    {"estimate", "bill", "assistance", "risk",
     "denial", "qa", "analytics", "coding",
     "", "Estimate", "Cost Estimator", "unknown"}

InitFn ==
    \E p \in Paths : \E id \in Identifiers :
        /\ Routes(p) \in Pages
        /\ pathname = p
        /\ element = Routes(p)
        /\ activeTab = [pg \in Pages |-> IF Routes(p) = pg THEN id ELSE Unmounted]
        /\ rendered = {}
        /\ activeButtons = {}
        /\ isPatient = Layout(p).isPatient
        /\ isProvider = Layout(p).isProvider
        /\ clicked = FALSE
        /\ discarded = NoSelection

RenderPage ==
    /\ element \in Pages
    /\ rendered = {}
    /\ rendered' = RenderedChildren(element, activeTab)
    /\ activeButtons' = RenderedButtons(element, activeTab)
    /\ UNCHANGED <<pathname, element, activeTab, isPatient, isProvider,
                   clicked, discarded>>

NextFn == RenderPage

SpecFn == InitFn /\ [][NextFn]_vars

----------------------------------------------------------------------------
(* Properties *)

\* the identifiers each page enumerates
PatientTabIds == {"estimate", "bill", "assistance", "risk"}

ProviderTabIds == {"denial", "qa", "analytics", "coding"}

EnumeratedIds(page) == IF page = "PatientPortal" THEN PatientTabIds ELSE ProviderTabIds

\* the components the tabs table maps an identifier to
MappedComponents(page, id) ==
    {tabs(page)[k].component : k \in {j \in 1..Len(tabs(page)) : tabs(page)[j].id = id}}

\* s begins with the characters of prefix, compared one by one
HasPrefix(s, prefix) ==
    \A i \in 1..Len(prefix) : i <= Len(s) /\ s[i] = prefix[i]

\* p is base, or base followed by "/" and anything, letters compared without case
UnderSection(p, base) ==
    /\ \A i \in 1..Len(base) : i <= Len(p) /\ ToLowerChar(p[i]) = base[i]
    /\ Len(p) > Len(base) => p[Len(base) + 1] = "/"

OnlySlashes(p) == Len(p) > 0 /\ {p[i] : i \in 1..Len(p)} = {"/"}

\* C1: on both pages, a step that selects tab T renders exactly the component
\* the tabs table maps to T and no other component, whatever was selected before.
C1_SelectRendersMapped ==
    [][\A page \in Pages : \A i \in 1..4 :
          ClickTab(page, i) =>
              /\ activeTab'[page] = tabs(page)[i].id
              /\ rendered' = MappedComponents(page, tabs(page)[i].id)
              /\ Cardinality(rendered') = 1]_vars

C1_Witness ==
    /\ element = "ProviderDashboard"
    /\ clicked
    /\ activeTab["ProviderDashboard"] = "analytics"
    /\ rendered = {"RevenueAnalytics"}

\* C2: a page rendered with a selection that is not one of its enumerated
\* identifiers shows its default component: CostEstimator in PatientPortal,
\* DenialRiskScorer in ProviderDashboard.
C2_UnknownIdFallsBack ==
    \A page \in Pages :
        (element = page /\ rendered # {} /\ activeTab[page] \notin EnumeratedIds(page))
            => rendered = {IF page = "PatientPortal" THEN "CostEstimator"
                           ELSE "DenialRiskScorer"}

C2_Witness ==
    /\ element = "ProviderDashboard"
    /\ activeTab["ProviderDashboard"] = "estimate"
    /\ rendered = {"DenialRiskScorer"}

\* C3: the Patient Portal link is highlighted exactly when the path starts with
\* "/patient", the Provider Dashboard link exactly when it starts with
\* "/provider", and never both.
C3_HighlightByPrefix ==
    /\ isPatient <=> HasPrefix(pathname, PatientPath)
    /\ isProvider <=> HasPrefix(pathname, ProviderPath)
    /\ ~(isPatient /\ isProvider)

C3_Witness ==
    /\ pathname = PatientPath \o <<"x">>
    /\ isPatient
    /\ ~isProvider

\* C4: at path "/" no page component is rendered, and the step taken from
\* there leads to path "/patient" with PatientPortal rendered.
C4_RootRedirects ==
    /\ [](pathname = RootPath => (element \notin Pages /\ rendered = {}))
    /\ [][pathname = RootPath =>
            /\ pathname' = PatientPath
            /\ element' = "PatientPortal"
            /\ rendered' # {}]_vars

C4_Witness ==
    /\ pathname = RootPath
    /\ element = "Navigate"
    /\ ENABLED Redirect

\* C5: at path "/patient", a PatientPortal that has seen no tab click since it
\* was mounted has 'estimate' selected, the 'Cost Estimator' button active and
\* CostEstimator rendered.
C5_PatientDefault ==
    (pathname = PatientPath /\ element = "PatientPortal" /\ ~clicked)
        => /\ activeTab["PatientPortal"] = "estimate"
           /\ activeButtons = {"Cost Estimator"}
           /\ rendered = {"CostEstimator"}

C5_Witness ==
    /\ pathname = PatientPath
    /\ element = "PatientPortal"
    /\ ~clicked
    /\ rendered = {"CostEstimator"}

\* C6: at path "/provider", a ProviderDashboard that has seen no tab click
\* since it was mounted has 'denial' selected, the 'Denial Risk Scorer' button
\* active and DenialRiskScorer rendered.
C6_ProviderDefault ==
    (pathname = ProviderPath /\ element = "ProviderDashboard" /\ ~clicked)
        => /\ activeTab["ProviderDashboard"] = "denial"
           /\ activeButtons = {"Denial Risk Scorer"}
           /\ rendered = {"DenialRiskScorer"}

C6_Witness ==
    /\ pathname = ProviderPath
    /\ element = "ProviderDashboard"
    /\ ~clicked
    /\ rendered = {"DenialRiskScorer"}

\* C7: the selection of every mounted page is one of that page's enumerated
\* tab identifiers.
C7_SelectionEnumerated ==
    \A page \in Pages :
        activeTab[page] # Unmounted => activeTab[page] \in EnumeratedIds(page)

C7_Witness ==
    /\ element = "PatientPortal"
    /\ clicked
    /\ activeTab["PatientPortal"] = "risk"
    /\ discarded["ProviderDashboard"] = "coding"

\* C8: a step that takes a page off the screen drops its selection, and a step
\* that puts a page on the screen mounts it with its default tab and no click.
C8_SelectionDiscarded ==
    [][\A page \in Pages :
          /\ (element = page /\ element' # page) => activeTab'[page] = Unmounted
          /\ (element # page /\ element' = page) =>
                /\ activeTab'[page] = (IF page = "PatientPortal" THEN "estimate"
                                       ELSE "denial")
                /\ ~clicked']_vars

C8_Witness ==
    /\ element = "PatientPortal"
    /\ discarded["PatientPortal"] \in {"bill", "assistance", "risk"}
    /\ ~clicked
    /\ activeTab["PatientPortal"] = "estimate"

\* C9 as stated: once no redirect is pending, every path has one of the two
\* pages rendered.
C9_Original ==
    element # "Navigate" => element \in Pages

\* C9 amended: a path under /patient renders PatientPortal, a path under
\* /provider renders ProviderDashboard, a path of slashes renders no page and
\* is redirected to PatientPortal, and any other path renders no page at all.
C9_RouterMapping ==
    /\ [](UnderSection(pathname, PatientPath) =>
            (element = "PatientPortal" /\ Cardinality(rendered) = 1))
    /\ [](UnderSection(pathname, ProviderPath) =>
            (element = "ProviderDashboard" /\ Cardinality(rendered) = 1))
    /\ [](OnlySlashes(pathname) => (element = "Navigate" /\ rendered = {}))
    /\ []((/\ ~UnderSection(pathname, PatientPath)
           /\ ~UnderSection(pathname, ProviderPath)
           /\ ~OnlySlashes(pathname)) => (element = "null" /\ rendered = {}))
    /\ [][element = "Navigate" => element' = "PatientPortal"]_vars

C9_Witness ==
    /\ pathname = <<"/", "x">>
    /\ element = "null"
    /\ rendered = {}

\* C10: a tab click changes the clicked page's selection only: the path, the
\* two link highlights and the other page's selection stay as they were; no
\* step that keeps the path changes a highlight, and the pair of highlights is
\* a value computed from the path alone.
C10_TabClickFrame ==
    /\ [][\A page \in Pages : \A i \in 1..4 :
            ClickTab(page, i) =>
                /\ pathname' = pathname
                /\ isPatient' = isPatient
                /\ isProvider' = isProvider
                /\ \A other \in Pages \ {page} : activeTab'[other] = activeTab[other]]_vars
    /\ [][pathname' = pathname =>
            (isPatient' = isPatient /\ isProvider' = isProvider)]_vars
    /\ [](<<isPatient, isProvider>> =
            <<HasPrefix(pathname, PatientPath), HasPrefix(pathname, ProviderPath)>>)

C10_Witness ==
    /\ pathname = PatientPathCapital
    /\ element = "PatientPortal"
    /\ clicked
    /\ activeTab["PatientPortal"] = "bill"
    /\ ~isPatient
    /\ ~isProvider

\* C11: the highlight agrees with the routed page: PatientPortal is rendered
\* exactly when the Patient Portal link is highlighted, and ProviderDashboard
\* exactly when the Provider Dashboard link is highlighted.
C11_HighlightAgreesWithPage ==
    /\ (element = "PatientPortal") <=> isPatient
    /\ (element = "ProviderDashboard") <=> isProvider

\* C12: on a mounted page exactly one tab button carries the active styling,
\* and it is the button of the tab whose component is the one rendered.
C12_ButtonMatchesComponent ==
    \A page \in Pages :
        element = page =>
            /\ Cardinality(activeButtons) = 1
            /\ Cardinality(rendered) = 1
            /\ \E i \in 1..Len(tabs(page)) :
                  /\ tabs(page)[i].label \in activeButtons
                  /\ tabs(page)[i].component \in rendered

C12_Witness ==
    /\ element = "PatientPortal"
    /\ clicked
    /\ activeButtons = {"Find Assistance"}
    /\ rendered = {"AssistanceFinder"}

====
